---------------------------- MODULE Spec2Model ----------------------------
(***************************************************************************)
(* A model of updater.py: the run of apply_pipeline over the HTML files of *)
(* the output folder, each file processed by process_html as one task of a *)
(* ThreadPoolExecutor, and the pipe stages and helpers that edit the       *)
(* parsed document.                                                        *)
(*                                                                         *)
(* A parsed document is a tree of nodes [name, attrs, kids, text]: a Tag   *)
(* has a name, an attribute dictionary and children; a NavigableString has *)
(* the name "#text" and its text; a BeautifulSoup object (the document, or *)
(* a parsed fragment put into the tree) has the name "[document]".  A node *)
(* of a tree is addressed by its path, the child indices from the root.    *)
(***************************************************************************)
EXTENDS Naturals, Sequences, FiniteSets, TLC

(***************************************************************************)
(* Strings (Python str).                                                   *)
(***************************************************************************)
Ch(s, i) == SubSeq(s, i, i)

Digits == {"0", "1", "2", "3", "4", "5", "6", "7", "8", "9"}

\* s.endswith(suffix)
endswith(s, suffix) ==
    /\ Len(suffix) <= Len(s)
    /\ SubSeq(s, Len(s) - Len(suffix) + 1, Len(s)) = suffix

\* s.startswith(prefix, at): prefix occurs in s at index at
occurs_at(s, prefix, at) ==
    /\ at + Len(prefix) - 1 <= Len(s)
    /\ SubSeq(s, at, at + Len(prefix) - 1) = prefix

\* sub in s
is_in(sub, s) == \E at \in 1..(Len(s) + 1) : occurs_at(s, sub, at)

\* s.replace(old, new) for a one-character old
RECURSIVE str_replace(_, _, _)
str_replace(s, old, new) ==
    IF s = "" THEN ""
    ELSE (IF Ch(s, 1) = old THEN new ELSE Ch(s, 1))
             \o str_replace(SubSeq(s, 2, Len(s)), old, new)

\* the first index of character c in s at or after from, 0 when there is none
RECURSIVE index_of(_, _, _)
index_of(s, c, from) ==
    IF from > Len(s) THEN 0
    ELSE IF Ch(s, from) = c THEN from
    ELSE index_of(s, c, from + 1)

(***************************************************************************)
(* re.match(r'https?://redleaves\.ru/.*/\d+([^#?]+)[^#]*#hcm=\d+', url),   *)
(* for URLs of one line with ASCII digits.                                 *)
(* The pattern is anchored at the start of url only.  A match is fixed by  *)
(* the index i of the "/" that ends ".*", the index j of the last digit of *)
(* "\d+" and the index k of the last character of the group; the three     *)
(* quantifiers are greedy, so the match Python returns is the one with the *)
(* greatest i, then the greatest j, then the greatest k.                   *)
(***************************************************************************)
NoMatch == [matched |-> FALSE, group1 |-> ""]

\* the index after the prefix https?://redleaves\.ru/ , 0 when url lacks it
after_host(url) ==
    IF occurs_at(url, "https://redleaves.ru/", 1) THEN 22
    ELSE IF occurs_at(url, "http://redleaves.ru/", 1) THEN 21
    ELSE 0

\* [^#]*#hcm=\d+ matches from index k + 1
tail_matches(url, k) ==
    LET h == index_of(url, "#", k + 1)
    IN  /\ h # 0
        /\ occurs_at(url, "#hcm=", h)
        /\ h + 5 <= Len(url)
        /\ Ch(url, h + 5) \in Digits

\* the indices k at which the group ([^#?]+), started at j + 1, can end
group_ends(url, j) ==
    {k \in (j + 1)..Len(url) :
        /\ \A q \in (j + 1)..k : Ch(url, q) \notin {"#", "?"}
        /\ tail_matches(url, k)}

\* the indices j at which \d+, started at i + 1, can end
digit_ends(url, i) ==
    {j \in (i + 1)..Len(url) :
        /\ \A q \in (i + 1)..j : Ch(url, q) \in Digits
        /\ group_ends(url, j) # {}}

\* the indices i of a "/" at which .* can end
slash_ends(url, from) ==
    {i \in from..Len(url) : Ch(url, i) = "/" /\ digit_ends(url, i) # {}}

Max(S) == CHOOSE m \in S : \A n \in S : n <= m

comment_uri(url) ==
    LET from == after_host(url)
    IN  IF from = 0 \/ slash_ends(url, from) = {} THEN NoMatch
        ELSE LET i == Max(slash_ends(url, from))
                 j == Max(digit_ends(url, i))
                 k == Max(group_ends(url, j))
             IN  [matched |-> TRUE, group1 |-> SubSeq(url, j + 1, k)]

(***************************************************************************)
(* The document tree (bs4).                                                *)
(***************************************************************************)
Tag(name, attrs, kids) ==
    [name |-> name, attrs |-> attrs, kids |-> kids, text |-> ""]

NavigableString(text) ==
    [name |-> "#text", attrs |-> <<>>, kids |-> <<>>, text |-> text]

\* BeautifulSoup(markup, 'html.parser'), given the nodes markup parses to
BeautifulSoup(kids) == Tag("[document]", <<>>, kids)

RECURSIVE node_at(_, _)
node_at(n, path) ==
    IF path = <<>> THEN n ELSE node_at(n.kids[Head(path)], Tail(path))

\* the paths of all descendants of n, in document order
RECURSIVE descendants(_), descendants_from(_, _)
descendants_from(n, i) ==
    IF i > Len(n.kids) THEN <<>>
    ELSE LET below == descendants(n.kids[i])
         IN  <<(<<i>>)>> \o [q \in 1..Len(below) |-> <<i>> \o below[q]]
                 \o descendants_from(n, i + 1)
descendants(n) == descendants_from(n, 1)

is_prefix(p, q) == Len(p) <= Len(q) /\ SubSeq(q, 1, Len(p)) = p

\* the tree with the node at path replaced by the nodes ns (none: removal)
RECURSIVE replace_at(_, _, _)
replace_at(n, path, ns) ==
    IF Len(path) = 1
    THEN [n EXCEPT !.kids = SubSeq(@, 1, path[1] - 1) \o ns
                                \o SubSeq(@, path[1] + 1, Len(@))]
    ELSE [n EXCEPT !.kids[path[1]] = replace_at(@, Tail(path), ns)]

\* Tag.append: child becomes the last child of the node at path
RECURSIVE append_at(_, _, _)
append_at(n, path, child) ==
    IF path = <<>> THEN [n EXCEPT !.kids = Append(@, child)]
    ELSE [n EXCEPT !.kids[path[1]] = append_at(@, Tail(path), child)]

\* target.string = text: the node's children become one string
RECURSIVE set_string_at(_, _, _)
set_string_at(n, path, text) ==
    IF path = <<>> THEN [n EXCEPT !.kids = <<NavigableString(text)>>]
    ELSE [n EXCEPT !.kids[path[1]] = set_string_at(@, Tail(path), text)]

(***************************************************************************)
(* str(soup) followed by a parse of the text: a BeautifulSoup object       *)
(* inside the tree is written without a tag of its own, so its children    *)
(* are read back as children of its parent.                                *)
(***************************************************************************)
RECURSIVE decode_kids(_, _), decode(_)
decode_kids(kids, i) ==
    IF i > Len(kids) THEN <<>>
    ELSE (IF kids[i].name = "[document]"
          THEN decode_kids(kids[i].kids, 1)
          ELSE <<decode(kids[i])>>) \o decode_kids(kids, i + 1)
decode(n) == [n EXCEPT !.kids = decode_kids(n.kids, 1)]

(***************************************************************************)
(* CSS selectors (soupsieve), for the shapes the program uses:             *)
(* tag, .class, #id, [attr="value"] and "ancestor descendant".             *)
(***************************************************************************)
RECURSIVE compile(_)
compile(css) ==
    IF Ch(css, 1) = "["
    THEN LET eq == index_of(css, "=", 1)
         IN  [kind |-> "attr", a |-> SubSeq(css, 2, eq - 1),
              v |-> SubSeq(css, eq + 2, Len(css) - 2)]
    ELSE IF index_of(css, " ", 1) # 0
    THEN LET sp == index_of(css, " ", 1)
         IN  [kind |-> "desc", anc |-> compile(SubSeq(css, 1, sp - 1)),
              sub |-> compile(SubSeq(css, sp + 1, Len(css)))]
    ELSE IF Ch(css, 1) = "." THEN [kind |-> "class", v |-> SubSeq(css, 2, Len(css))]
    ELSE IF Ch(css, 1) = "#" THEN [kind |-> "id", v |-> SubSeq(css, 2, Len(css))]
    ELSE [kind |-> "tag", v |-> css]

\* the node at path matches the compiled selector; an ancestor of a
\* descendant selector is any proper ancestor in the whole tree
RECURSIVE matches(_, _, _)
matches(soup, path, sel) ==
    LET n == node_at(soup, path)
    IN  /\ n.name \notin {"#text", "[document]"}
        /\ CASE sel.kind = "tag" -> n.name = sel.v
             [] sel.kind = "class" ->
                    "class" \in DOMAIN n.attrs /\ sel.v \in n.attrs["class"]
             [] sel.kind = "id" ->
                    "id" \in DOMAIN n.attrs /\ n.attrs["id"] = sel.v
             [] sel.kind = "attr" ->
                    sel.a \in DOMAIN n.attrs /\ n.attrs[sel.a] = sel.v
             [] sel.kind = "desc" ->
                    /\ matches(soup, path, sel.sub)
                    /\ \E q \in 1..(Len(path) - 1) :
                           matches(soup, SubSeq(path, 1, q), sel.anc)

\* tag.select(css): the matching descendants of the node at `under`
select_in(soup, under, css) ==
    LET sel == compile(css)
    IN  SelectSeq(descendants(soup),
                  LAMBDA p : /\ Len(p) > Len(under)
                             /\ is_prefix(under, p)
                             /\ matches(soup, p, sel))

select(soup, css) == select_in(soup, <<>>, css)

\* select_one: the first match; the empty path stands for None
first_or_none(paths) == IF paths = <<>> THEN <<>> ELSE Head(paths)
select_one_in(soup, under, css) == first_or_none(select_in(soup, under, css))
select_one(soup, css) == select_one_in(soup, <<>>, css)

(***************************************************************************)
(* What a pipe stage or a helper that can raise gives back: the tree as it *)
(* stands, and the exception raised ("None" when it returned).             *)
(***************************************************************************)
Returned(soup) == [soup |-> soup, exc |-> "None"]
Raised(soup, exc) == [soup |-> soup, exc |-> exc]

(***************************************************************************)
(* Helpers.  A helper that takes HTML text in the source takes here the    *)
(* nodes that text parses to.  The targets are selected before the first   *)
(* edit; an edit at a path leaves every earlier path of the tree in place, *)
(* so the edits of replace, set-string and remove are made last target     *)
(* first.                                                                  *)
(***************************************************************************)
RECURSIVE replace_each(_, _, _)
replace_each(soup, targets, replace_html) ==
    IF targets = <<>> THEN soup
    ELSE replace_each(
             replace_at(soup, targets[Len(targets)], <<BeautifulSoup(replace_html)>>),
             SubSeq(targets, 1, Len(targets) - 1), replace_html)

replace_with_element(soup, css_selector, replace_html) ==
    replace_each(soup, select(soup, css_selector), replace_html)

RECURSIVE set_string_each(_, _, _)
set_string_each(soup, targets, replace_str) ==
    IF targets = <<>> THEN soup
    ELSE set_string_each(
             set_string_at(soup, targets[Len(targets)], replace_str),
             SubSeq(targets, 1, Len(targets) - 1), replace_str)

replace_string(soup, css_selector, replace_str) ==
    set_string_each(soup, select(soup, css_selector), replace_str)

RECURSIVE remove_each(_, _)
remove_each(soup, targets) ==
    IF targets = <<>> THEN soup
    ELSE remove_each(replace_at(soup, targets[Len(targets)], <<>>),
                     SubSeq(targets, 1, Len(targets) - 1))

remove_element(soup, css_selector) ==
    remove_each(soup, select(soup, css_selector))

(***************************************************************************)
(* add_children.  The loop assigns the new tag to the parameter wrap_tag   *)
(* itself, so from the second target on soup.new_tag is given the previous *)
(* wrapper (a Tag object, by then holding its child) where the tag name is *)
(* expected.  wrap_tag is [str |-> name] while it is the caller's string   *)
(* and [tag |-> node] once it is a Tag; a Tag object used as a name is     *)
(* written Tag_object(its name).  The attributes of wrap_attrs are set     *)
(* with setattr, as attributes of the Python object: the new tag's         *)
(* attribute dictionary stays empty.                                       *)
(***************************************************************************)
Tag_object(n) == "Tag_object(" \o n.name \o ")"

new_tag(wrap_tag) ==
    Tag(IF "str" \in DOMAIN wrap_tag THEN wrap_tag.str
        ELSE Tag_object(wrap_tag.tag), <<>>, <<>>)

RECURSIVE add_children_each(_, _, _, _, _)
add_children_each(soup, targets, child_html, wrap_tag, wrap_attrs) ==
    IF targets = <<>> THEN soup
    ELSE LET wrapper == [new_tag(wrap_tag) EXCEPT
                            !.kids = <<BeautifulSoup(child_html)>>]
         IN  add_children_each(append_at(soup, Head(targets), wrapper),
                               Tail(targets), child_html,
                               [tag |-> wrapper], wrap_attrs)

add_children(soup, css_selector, child_html, wrap_tag, wrap_attrs) ==
    add_children_each(soup, select(soup, css_selector), child_html,
                      [str |-> wrap_tag], wrap_attrs)

\* insert_style: soup.select_one('head') is None when there is no head,
\* and None has no append
insert_style(soup, css_style) ==
    LET head == select_one(soup, "head")
        style_tag == BeautifulSoup(<<Tag("style", [type |-> "text/css"],
                                         <<NavigableString(css_style)>>)>>)
    IN  IF head = <<>> THEN Raised(soup, "AttributeError")
        ELSE Returned(append_at(soup, head, style_tag))

(***************************************************************************)
(* Pipes.  Texts in Russian are written in Latin letters.                  *)
(***************************************************************************)
SLOGAN == "Literaturnyj proekt, ob'edinyayushchij molodyh avtorov. Arhivnaya versiya"

change_slogan(soup, file_path) ==
    Returned(replace_string(soup, ".site-slogan", SLOGAN))

categories_html ==
    <<Tag("div", <<>>, <<Tag("h3", <<>>,
        <<NavigableString("Eshchyo bol'she proizvedenij v razdele "),
          Tag("a", [href |-> "index.phpoptioncom_contentviewcategorylayoutblogid9itemid264.htm"],
              <<NavigableString("Proza")>>),
          NavigableString(" i "),
          Tag("a", [href |-> "index.phpoptioncom_contentviewcategorylayoutblogid8itemid263.htm"],
              <<NavigableString("Stihi")>>)>>)>>)>>

add_categories_to_homepage(soup, file_path) ==
    IF endswith(file_path, "default.htm")
    THEN Returned(add_children(soup, ".t3-content", categories_html, "div", <<>>))
    ELSE Returned(soup)

images_src ==
    <<[selector |-> "[alt=\"97465406_plusBh1rgU9NG3H3fC9JhhFVKTDrA7sq4D2oWLA_0187f.jpg\"]",
       src |-> "https://raw.githubusercontent.com/redleaves-ru/redleaves-ru.github.io/main/site/images/tony/97465406_plusbh1rgu9ng3h3fc9jhhfvktdra7sq4d2owla_0187f.jpg"]>>

RECURSIVE fix_images_each(_, _)
fix_images_each(soup, k) ==
    IF k > Len(images_src) THEN soup
    ELSE fix_images_each(
             replace_with_element(soup, images_src[k].selector,
                 <<Tag("img", [src |-> images_src[k].src, width |-> "496",
                               alt |-> "image for article"], <<>>)>>),
             k + 1)

fix_images(soup, file_path) == Returned(fix_images_each(soup, 1))

clean_commentaries_section(soup, file_path) ==
    Returned(remove_element(remove_element(soup, ".commentForm"), ".kmt-addyours"))

remove_messages(soup, file_path) ==
    Returned(remove_element(soup, "#system-message-container"))

(***************************************************************************)
(* make_images_clickable.  The articles are selected once; for an article  *)
(* with a read-more link, img is the article's first image or None.  The   *)
(* f-string reads read_more.attrs["href"] (KeyError without it), writes    *)
(* str(img) and then reads img.attrs['src'] (AttributeError when img is    *)
(* None, KeyError without src).  The replacement is made for every element *)
(* of the whole document that carries that src.                            *)
(***************************************************************************)
RECURSIVE make_images_clickable_each(_, _)
make_images_clickable_each(soup, articles) ==
    IF articles = <<>> THEN Returned(soup)
    ELSE LET article == Head(articles)
             read_more == select_one_in(soup, article, ".readmore a")
             img == select_one_in(soup, article, "img")
         IN  IF read_more = <<>>
             THEN make_images_clickable_each(soup, Tail(articles))
             ELSE IF "href" \notin DOMAIN node_at(soup, read_more).attrs
             THEN Raised(soup, "KeyError")
             ELSE IF img = <<>>
             THEN Raised(soup, "AttributeError")
             ELSE IF "src" \notin DOMAIN node_at(soup, img).attrs
             THEN Raised(soup, "KeyError")
             ELSE LET clickable_img_raw ==
                          <<Tag("a", [href |-> node_at(soup, read_more).attrs["href"]],
                                <<decode(node_at(soup, img))>>)>>
                      selector == "[src=\"" \o node_at(soup, img).attrs["src"] \o "\"]"
                  IN  make_images_clickable_each(
                          replace_with_element(soup, selector, clickable_img_raw),
                          Tail(articles))

make_images_clickable(soup, file_path) ==
    make_images_clickable_each(soup, select(soup, "article"))

(***************************************************************************)
(* The metadata (load_metadata): authors, and the HyperComments records.   *)
(***************************************************************************)
Comment(url, name, parent_text, text) ==
    [url |-> url, name |-> name, avatar |-> "avatar.png", title |-> "title",
     date |-> "2015-03-01T10:20", parent_text |-> parent_text, text |-> text]

comments ==
    <<Comment("https://redleaves.ru/s/42name.html?x=1#hcm=7", "Anna", "", "first"),
      Comment("http://redleaves.ru/s/42name.html#hcm=8", "Boris", "first", "second"),
      Comment("https://example.ru/section/42article-name.html?x=1#hcm=7", "Vera", "", "third"),
      Comment("https://redleaves.ru/s/5nohead.html#hcm=3", "Gleb", "", "fourth"),
      Comment("https://redleaves.ru/s/8twin.html#hcm=4", "Dina", "", "fifth"),
      Comment("https://redleaves.ru/s/9bare.html#hcm=5", "Egor", "", "sixth"),
      Comment("https://redleaves.ru/s/3quiet.html", "Zoya", "", "seventh")>>

metadata == <<(<<>>), comments>>

re_match_of ==
    [url \in {comments[k].url : k \in 1..Len(comments)} |-> comment_uri(url)]

(***************************************************************************)
(* add_hypercomments.  generate_comment_html gives the nodes its text      *)
(* parses to, without the white space between the tags; a parent_text of   *)
(* None or '' is "", and its paragraph is then cut from the text.          *)
(***************************************************************************)
generate_comment_html(c) ==
    <<Tag("div", [class |-> {"hc-comment"}],
        <<Tag("img", [src |-> c.avatar, class |-> {"hc-avatar"}], <<>>),
          Tag("div", [class |-> {"hc-content"}],
              <<Tag("div", [class |-> {"hc-header"}], <<NavigableString(c.title)>>),
                Tag("div", [class |-> {"hc-subheader"}],
                    <<Tag("h3", [class |-> {"hc-author"}], <<NavigableString(c.name)>>),
                      Tag("div", [class |-> {"hc-date"}],
                          <<NavigableString(str_replace(c.date, "T", " "))>>)>>)>>
              \o (IF c.parent_text = "" THEN <<>>
                  ELSE <<Tag("p", [class |-> {"hc-quote"}],
                             <<NavigableString(c.parent_text)>>)>>)
              \o <<Tag("p", [class |-> {"hc-text"}], <<NavigableString(c.text)>>)>>)>>)>>

\* the style sheet text of add_hypercomments, shortened
HC_STYLE == ".hc-comment { display: flex; } /* FIXES */ .hc-subheader { margin-bottom: 10px }"

\* the test of the loop: the URL matches and group 1 occurs in file_name
\* (re.match is a function of the URL: its results for the URLs of the
\* metadata are computed once)
comment_is_for(comment, file_name) ==
    LET comment_uri_ == IF comment.url \in DOMAIN re_match_of
                        THEN re_match_of[comment.url]
                        ELSE comment_uri(comment.url)
    IN  comment_uri_.matched /\ is_in(comment_uri_.group1, file_name)

RECURSIVE add_hypercomments_each(_, _, _, _)
add_hypercomments_each(soup, file_name, comments_, k) ==
    IF k > Len(comments_) THEN soup
    ELSE add_hypercomments_each(
             IF comment_is_for(comments_[k], file_name)
             THEN add_children(soup, ".kmt-list",
                               generate_comment_html(comments_[k]), "li", <<>>)
             ELSE soup,
             file_name, comments_, k + 1)

\* has_hc_comments set for any document that has a comments_ list
has_hc_comments_any_block(soup, file_name, comments_) ==
    select_one(soup, ".kmt-list") # <<>>

\* has_hc_comments after the loop
has_hc_comments(soup, file_name, comments_) ==
    /\ select_one(soup, ".kmt-list") # <<>>
    /\ \E k \in 1..Len(comments_) : comment_is_for(comments_[k], file_name)

add_hypercomments(soup, file_name, comments_) ==
    LET comments_block == select_one(soup, ".kmt-list")
        added == IF comments_block # <<>>
                 THEN add_hypercomments_each(soup, file_name, comments_, 1)
                 ELSE soup
    IN  IF has_hc_comments(soup, file_name, comments_)
        THEN insert_style(remove_element(added, ".kmt-empty-comment"), HC_STYLE)
        ELSE Returned(added)

(***************************************************************************)
(* The files the output folder may hold.                                   *)
(***************************************************************************)
Html(head, body) ==
    BeautifulSoup(<<Tag("html", <<>>, head \o <<Tag("body", <<>>, body)>>)>>)

Head_ == <<Tag("head", <<>>, <<Tag("title", <<>>, <<NavigableString("redleaves")>>)>>)>>

Slogan_ == Tag("span", [class |-> {"site-slogan"}], <<NavigableString("Old")>>)

Placeholder_ == Tag("li", [class |-> {"kmt-empty-comment"}],
                    <<NavigableString("No comments yet")>>)

KmtList_ == Tag("ul", [class |-> {"kmt-list"}], <<Placeholder_>>)

ReadMore_(href) ==
    Tag("p", [class |-> {"readmore"}],
        <<Tag("a", [href |-> href, class |-> {"btn"}], <<NavigableString("more")>>)>>)

Image_(src) == Tag("img", [src |-> src], <<>>)

Article_(kids) == Tag("article", <<>>, kids)

HOME == "/w/site/default.htm"
NAME == "/w/site/s/42name.html"
RENAME == "/w/site/s/17rename.html"
NOHEAD == "/w/site/s/5nohead.html"
BLOG == "/w/site/blog.html"
LIST == "/w/site/list.htm"
TWIN == "/w/site/s/8twin.html"
BARE == "/w/site/s/9bare.html"
QUIET == "/w/site/s/3quiet.html"
TONY == "/w/site/tony.html"
SHARED == "/w/site/shared.html"
STYLE == "/w/site/style.css"

source ==
    (HOME :> Html(Head_, <<Slogan_,
                 Tag("div", [id |-> "system-message-container"], <<>>),
                 Tag("div", [class |-> {"t3-content"}],
                     <<Article_(<<Image_("a.jpg"), ReadMore_("1a.html")>>)>>)>>))
 @@ (NAME :> Html(Head_, <<Slogan_,
                 Tag("div", [class |-> {"commentForm"}], <<Tag("form", <<>>, <<>>)>>),
                 Tag("div", [class |-> {"kmt-addyours"}], <<>>),
                 KmtList_>>))
 @@ (RENAME :> Html(Head_, <<KmtList_>>))
 @@ (NOHEAD :> Html(<<>>, <<KmtList_>>))
 @@ (BLOG :> Html(Head_, <<Article_(<<Image_("a.jpg"), ReadMore_("1a.html")>>),
                           Article_(<<Image_("b.jpg")>>)>>))
 @@ (LIST :> Html(Head_, <<Article_(<<Image_("a.jpg"), ReadMore_("1a.html")>>),
                           Article_(<<ReadMore_("2b.html")>>)>>))
 @@ (TWIN :> Html(Head_, <<KmtList_, KmtList_>>))
 @@ (BARE :> Html(Head_, <<Tag("p", [class |-> {"kmt-empty-comment"}],
                               <<NavigableString("No comments yet")>>)>>))
 @@ (QUIET :> Html(Head_, <<Slogan_, KmtList_>>))
 @@ (TONY :> Html(Head_, <<Tag("img",
                 [alt |-> "97465406_plusBh1rgU9NG3H3fC9JhhFVKTDrA7sq4D2oWLA_0187f.jpg",
                  src |-> "broken.jpg"], <<>>)>>))
 @@ (SHARED :> Html(Head_, <<Article_(<<Image_("a.jpg"), ReadMore_("1a.html")>>),
                             Article_(<<Image_("a.jpg")>>)>>))
 @@ (STYLE :> BeautifulSoup(<<NavigableString(".joms-focus__cover:before {}")>>))

\* os.walk lists the folder in this order
listing == <<HOME, BLOG, LIST, NAME, RENAME, NOHEAD, TWIN, BARE, QUIET, TONY,
             SHARED, STYLE>>

\* the documents of the runs over several documents
MaxDocs == 2
ManyDocs == {NAME, LIST, BLOG}

Sites ==
    {{p} : p \in DOMAIN source \ {STYLE}}
        \cup {S \in SUBSET ManyDocs : Cardinality(S) >= 2 /\ Cardinality(S) <= MaxDocs}

\* max_workers of the executor: 6 in the source, and the smaller sizes that
\* stand for a folder of more documents than the pool has workers
DEFAULT_WORKERS == 6
MaxPool == 2
PoolSizes == (1..MaxPool) \cup {DEFAULT_WORKERS}

(***************************************************************************)
(* The state of the run.                                                   *)
(***************************************************************************)
VARIABLES
    fs,             \* the output folder: path -> the tree the file's text parses to
    main_pc,        \* where apply_pipeline stands
    html_files,     \* the paths found by the walk
    futures,        \* one future and its task per submitted file
    work_queue,     \* the executor's queue of work items
    num_threads,    \* the worker threads started
    idle_semaphore, \* the executor's count of idle workers
    max_workers,    \* the size of the pool
    pbar,           \* the progress bar: total and n
    yielded         \* the futures as_completed has given so far

vars == <<fs, main_pc, html_files, futures, work_queue, num_threads,
          idle_semaphore, max_workers, pbar, yielded>>

Init ==
    \E site \in Sites, w \in PoolSizes :
        /\ fs = [p \in site \cup {STYLE} |-> source[p]]
        /\ main_pc = "walk"
        /\ html_files = <<>>
        /\ futures = <<>>
        /\ work_queue = <<>>
        /\ num_threads = 0
        /\ idle_semaphore = 0
        /\ max_workers = w
        /\ pbar = [total |-> 0, n |-> 0]
        /\ yielded = {}

(***************************************************************************)
(* process_html.                                                           *)
(***************************************************************************)
pipe_stages ==
    <<"change_slogan", "add_categories_to_homepage", "fix_images",
      "clean_commentaries_section", "remove_messages", "make_images_clickable",
      "add_hypercomments">>

stage(name, soup, file_path) ==
    CASE name = "change_slogan" -> change_slogan(soup, file_path)
      [] name = "add_categories_to_homepage" -> add_categories_to_homepage(soup, file_path)
      [] name = "fix_images" -> fix_images(soup, file_path)
      [] name = "clean_commentaries_section" -> clean_commentaries_section(soup, file_path)
      [] name = "remove_messages" -> remove_messages(soup, file_path)
      [] name = "make_images_clickable" -> make_images_clickable(soup, file_path)
      [] name = "add_hypercomments" -> add_hypercomments(soup, file_path, metadata[2])

\* for stage in pipe_stages: stage(soup, file_path); trace is the tree after
\* each stage that returned
RECURSIVE run_stages(_, _, _, _)
run_stages(soup, file_path, k, trace) ==
    IF k > Len(pipe_stages)
    THEN [trace |-> trace, exc |-> "None", raised_in |-> "None"]
    ELSE LET r == stage(pipe_stages[k], soup, file_path)
         IN  IF r.exc # "None"
             THEN [trace |-> trace, exc |-> r.exc, raised_in |-> pipe_stages[k]]
             ELSE run_stages(r.soup, file_path, k + 1, Append(trace, r.soup))

(***************************************************************************)
(* The futures and the worker threads (concurrent.futures).                *)
(***************************************************************************)
Running == {"running", "read", "staged", "opened"}
Finished == {"returned", "raised"}

done(i) == futures[i].pc \in Finished

\* file_path read from the loop variable html_file when the task runs
task_file_path_late_bound(i) == html_files[Len(futures)]

\* the file_path argument bound by executor.submit(process_html, file_path=html_file, ...)
task_file_path(i) == futures[i].file_path

\* a failure that also cancels the work items still queued
set_exception_cancelling(i, exc, raised_in) ==
    [j \in 1..Len(futures) |->
        IF j = i
        THEN [futures[j] EXCEPT !.pc = "raised", !.exception = exc,
                                !.raised_in = raised_in]
        ELSE IF futures[j].pc = "queued"
        THEN [futures[j] EXCEPT !.pc = "raised", !.exception = "CancelledError",
                                !.raised_in = "cancel"]
        ELSE futures[j]]

\* Future.set_exception: the work item's exception is kept in its own future
set_exception(i, exc, raised_in) ==
    [futures EXCEPT ![i].pc = "raised", ![i].exception = exc,
                    ![i].raised_in = raised_in]

\* Future.set_result
set_result(i) == [futures EXCEPT ![i].pc = "returned"]

last_soup(i) ==
    IF futures[i].trace = <<>> THEN futures[i].parsed
    ELSE futures[i].trace[Len(futures[i].trace)]

\* os.walk and the filter on the suffix
WalkRootDir ==
    /\ main_pc = "walk"
    /\ html_files' = SelectSeq(listing,
           LAMBDA p : p \in DOMAIN fs /\ (endswith(p, ".html") \/ endswith(p, ".htm")))
    /\ main_pc' = "submit"
    /\ UNCHANGED <<fs, futures, work_queue, num_threads, idle_semaphore,
                   max_workers, pbar, yielded>>

\* executor.submit: the work item is queued; a worker is started unless one
\* is idle or the pool is full
Submit ==
    /\ main_pc = "submit"
    /\ Len(futures) < Len(html_files)
    /\ futures' = Append(futures,
           [file_path |-> html_files[Len(futures) + 1], pc |-> "queued",
            exception |-> "None", raised_in |-> "None",
            parsed |-> BeautifulSoup(<<>>), trace |-> <<>>])
    /\ work_queue' = Append(work_queue, Len(futures) + 1)
    /\ IF idle_semaphore > 0
       THEN idle_semaphore' = idle_semaphore - 1 /\ UNCHANGED num_threads
       ELSE /\ UNCHANGED idle_semaphore
            /\ num_threads' = IF num_threads < max_workers
                              THEN num_threads + 1 ELSE num_threads
    /\ UNCHANGED <<fs, main_pc, html_files, max_workers, pbar, yielded>>

\* pbar = tqdm(total=len(html_files))
StartProgress ==
    /\ main_pc = "submit"
    /\ Len(futures) = Len(html_files)
    /\ pbar' = [total |-> Len(html_files), n |-> 0]
    /\ main_pc' = "as_completed"
    /\ UNCHANGED <<fs, html_files, futures, work_queue, num_threads,
                   idle_semaphore, max_workers, yielded>>

\* a waiting worker takes the next work item
WorkerTake ==
    /\ work_queue # <<>>
    /\ num_threads > Cardinality({i \in 1..Len(futures) : futures[i].pc \in Running})
    /\ futures' = [futures EXCEPT ![Head(work_queue)].pc = "running"]
    /\ work_queue' = Tail(work_queue)
    /\ UNCHANGED <<fs, main_pc, html_files, num_threads, idle_semaphore,
                   max_workers, pbar, yielded>>

\* open(file_path, 'r'), f.read(), BeautifulSoup(html_content, "html.parser")
ReadHtml_(i) ==
    /\ futures[i].pc = "running"
    /\ futures' = [futures EXCEPT ![i].pc = "read",
                                  ![i].parsed = fs[task_file_path(i)]]
    /\ UNCHANGED <<fs, main_pc, html_files, work_queue, num_threads,
                   idle_semaphore, max_workers, pbar, yielded>>

\* open(file_path, 'r') or f.read() raises (an I/O or a decoding error)
ReadFails_(i) ==
    /\ futures[i].pc = "running"
    /\ futures' = set_exception(i, "OSError", "read")
    /\ idle_semaphore' = idle_semaphore + 1
    /\ UNCHANGED <<fs, main_pc, html_files, work_queue, num_threads,
                   max_workers, pbar, yielded>>

\* the loop over pipe_stages; a stage that raises ends the task
RunStages_(i) ==
    /\ futures[i].pc = "read"
    /\ LET r == run_stages(futures[i].parsed, task_file_path(i), 1, <<>>)
       IN  IF r.exc = "None"
           THEN /\ futures' = [futures EXCEPT ![i].pc = "staged", ![i].trace = r.trace]
                /\ UNCHANGED idle_semaphore
           ELSE /\ futures' = [set_exception(i, r.exc, r.raised_in) EXCEPT
                                  ![i].trace = r.trace]
                /\ idle_semaphore' = idle_semaphore + 1
    /\ UNCHANGED <<fs, main_pc, html_files, work_queue, num_threads,
                   max_workers, pbar, yielded>>

\* open(file_path, 'w') truncates the file
OpenForWrite_(i) ==
    /\ futures[i].pc = "staged"
    /\ fs' = [fs EXCEPT ![task_file_path(i)] = BeautifulSoup(<<>>)]
    /\ futures' = [futures EXCEPT ![i].pc = "opened"]
    /\ UNCHANGED <<main_pc, html_files, work_queue, num_threads,
                   idle_semaphore, max_workers, pbar, yielded>>

\* f.write(str(soup)), and the task returns
WriteHtml_(i) ==
    /\ futures[i].pc = "opened"
    /\ fs' = [fs EXCEPT ![task_file_path(i)] = decode(last_soup(i))]
    /\ futures' = set_result(i)
    /\ idle_semaphore' = idle_semaphore + 1
    /\ UNCHANGED <<main_pc, html_files, work_queue, num_threads,
                   max_workers, pbar, yielded>>

\* str(soup) or f.write raises (an I/O error): the file keeps what was
\* written of the text so far, a part of it that is not all of it
WriteFails_(i) ==
    /\ futures[i].pc = "opened"
    /\ LET written == decode(last_soup(i)).kids
       IN  \E k \in 0..(Len(written) - 1) :
               fs' = [fs EXCEPT ![task_file_path(i)] =
                         BeautifulSoup(SubSeq(written, 1, k))]
    /\ futures' = set_exception(i, "OSError", "write")
    /\ idle_semaphore' = idle_semaphore + 1
    /\ UNCHANGED <<main_pc, html_files, work_queue, num_threads,
                   max_workers, pbar, yielded>>

\* for _ in as_completed(futures): pbar.update(1)
AsCompleted_(i) ==
    /\ main_pc = "as_completed"
    /\ i \notin yielded
    /\ done(i)
    /\ yielded' = yielded \cup {i}
    /\ pbar' = [pbar EXCEPT !.n = @ + 1]
    /\ UNCHANGED <<fs, main_pc, html_files, futures, work_queue, num_threads,
                   idle_semaphore, max_workers>>

\* the loop over as_completed is over, and the with block's exit,
\* shutdown(wait=True), has joined the workers; pbar.close()
ExitExecutor ==
    /\ main_pc = "as_completed"
    /\ yielded = 1..Len(futures)
    /\ work_queue = <<>>
    /\ \A i \in 1..Len(futures) : done(i)
    /\ main_pc' = "returned"
    /\ UNCHANGED <<fs, html_files, futures, work_queue, num_threads,
                   idle_semaphore, max_workers, pbar, yielded>>

ReadHtml == \E i \in 1..Len(futures) : ReadHtml_(i)
ReadFails == \E i \in 1..Len(futures) : ReadFails_(i)
RunStages == \E i \in 1..Len(futures) : RunStages_(i)
OpenForWrite == \E i \in 1..Len(futures) : OpenForWrite_(i)
WriteHtml == \E i \in 1..Len(futures) : WriteHtml_(i)
WriteFails == \E i \in 1..Len(futures) : WriteFails_(i)
AsCompleted == \E i \in 1..Len(futures) : AsCompleted_(i)

Next ==
    \/ WalkRootDir
    \/ Submit
    \/ StartProgress
    \/ WorkerTake
    \/ ReadHtml
    \/ ReadFails
    \/ RunStages
    \/ OpenForWrite
    \/ WriteHtml
    \/ WriteFails
    \/ AsCompleted
    \/ ExitExecutor

Spec == Init /\ [][Next]_vars

(***************************************************************************)
(* Properties.                                                             *)
(***************************************************************************)
Futures == 1..Len(futures)

\* what process_html makes of the file as the folder first held it
expected_of == [path \in DOMAIN source |-> run_stages(source[path], path, 1, <<>>)]
expected(path) == expected_of[path]

\* the task ran every stage
staged(i) == Len(futures[i].trace) = Len(pipe_stages)

\* the tree before and after the stage at place k of pipe_stages
before_stage(i, k) == IF k = 1 THEN futures[i].parsed ELSE futures[i].trace[k - 1]
after_stage(i, k) == futures[i].trace[k]

\* the comments the imported-comments stage added to the tree
hc_added(i) ==
    Len(select(after_stage(i, 7), ".hc-comment"))
        - Len(select(before_stage(i, 7), ".hc-comment"))

\* C1: a task ends with an exception only of its own processing (a stage
\* that raises on its own document, or its own read or write), never because of
\* another task; and when apply_pipeline returns there is one task per
\* document found, every task has finished, and every task that did not
\* raise has read its document, run all stages and written the result.
C1_SiblingsRunToCompletion ==
    /\ \A i \in Futures :
           futures[i].pc = "raised" =>
               \/ futures[i].raised_in \in {"read", "write"}
               \/ /\ futures[i].raised_in = expected(futures[i].file_path).raised_in
                  /\ futures[i].exception = expected(futures[i].file_path).exc
    /\ main_pc = "returned" =>
           /\ Len(futures) = Len(html_files)
           /\ \A i \in Futures :
                  /\ futures[i].file_path = html_files[i]
                  /\ done(i)
                  /\ futures[i].pc = "returned" =>
                         /\ staged(i)
                         /\ fs[html_files[i]] = decode(after_stage(i, 7))

\* the run has returned, one task raised and a sibling wrote its document
C1_Witness ==
    /\ main_pc = "returned"
    /\ \E i, j \in Futures :
           /\ futures[i].pc = "raised"
           /\ futures[i].raised_in = "make_images_clickable"
           /\ futures[j].pc = "returned"
           /\ fs[html_files[j]] # source[html_files[j]]

\* C2: at the end of the run the count the run reports tells the succeeded
\* documents from the failed ones: the progress count is the number of
\* tasks that wrote their output, and what is left of the total is the
\* number of tasks that raised.
C2_ReportTellsFailedFromSucceeded ==
    main_pc = "returned" =>
        /\ pbar.n = Cardinality({i \in Futures : futures[i].pc = "returned"})
        /\ pbar.total - pbar.n = Cardinality({i \in Futures : futures[i].pc = "raised"})

\* C3: when the run has returned, the content of every document is fixed by
\* its own first content and the metadata, whatever the size of the pool
\* and the order of the steps: the transformed document when its stages
\* return, its first content when a stage or the read raises (a document
\* whose write failed aside); a file that is no document is as it was.
C3_OutputIndependentOfSchedule ==
    main_pc = "returned" =>
        /\ \A i \in 1..Len(html_files) :
               LET path == html_files[i]
                   e == expected(path)
               IN  futures[i].raised_in # "write" =>
                       fs[path] = IF futures[i].raised_in # "read" /\ e.exc = "None"
                                  THEN decode(e.trace[7])
                                  ELSE source[path]
        /\ fs[STYLE] = source[STYLE]

\* the run over two documents has returned with both written, by fewer
\* worker threads than documents
C3_Witness ==
    /\ main_pc = "returned"
    /\ Len(futures) >= 2
    /\ num_threads < Len(futures)
    /\ \A i \in Futures :
           futures[i].pc = "returned" /\ fs[html_files[i]] # source[html_files[i]]

(***************************************************************************)
(* C4, as the specification states it: the document key is the file name   *)
(* without its numeric prefix and its extension, and the fragment of a URL *)
(* of the shape .../<numeric-id><path-fragment>...#hcm=<id> is what        *)
(* follows the numeric id of its last path segment, up to the extension.   *)
(***************************************************************************)
RECURSIVE last_index_of(_, _, _)
last_index_of(s, c, from) ==
    IF from < 1 THEN 0
    ELSE IF Ch(s, from) = c THEN from
    ELSE last_index_of(s, c, from - 1)

RECURSIVE strip_digits(_)
strip_digits(s) ==
    IF s # "" /\ Ch(s, 1) \in Digits THEN strip_digits(SubSeq(s, 2, Len(s))) ELSE s

\* s up to the first character of stops
RECURSIVE up_to(_, _)
up_to(s, stops) ==
    IF s = "" \/ Ch(s, 1) \in stops THEN ""
    ELSE Ch(s, 1) \o up_to(SubSeq(s, 2, Len(s)), stops)

document_key(path) ==
    up_to(strip_digits(SubSeq(path, last_index_of(path, "/", Len(path)) + 1, Len(path))),
          {"."})

\* "" stands for the absent fragment
url_fragment(url) ==
    LET h == index_of(url, "#", 1)
        resource == up_to(url, {"?", "#"})
        segment == SubSeq(resource, last_index_of(resource, "/", Len(resource)) + 1,
                          Len(resource))
    IN  IF /\ h # 0
           /\ occurs_at(url, "#hcm=", h)
           /\ h + 5 <= Len(url)
           /\ Ch(url, h + 5) \in Digits
           /\ segment # ""
           /\ Ch(segment, 1) \in Digits
        THEN up_to(strip_digits(segment), {"."})
        ELSE ""

\* the comment record is rendered in a comments list of the tree
attached(c, soup) ==
    LET texts == select(soup, ".kmt-list .hc-text")
    IN  \E p \in 1..Len(texts) :
            node_at(soup, texts[p]).kids = <<NavigableString(c.text)>>

\* C4: after the imported-comments stage on a document with a comments list,
\* a comment record is in the list if and only if its URL has the shape
\* and its fragment is the document key.
C4_AttachedIffFragmentIsKey ==
    \A i \in Futures :
        (staged(i) /\ select(before_stage(i, 7), ".kmt-list") # <<>>) =>
            \A k \in 1..Len(comments) :
                attached(comments[k], after_stage(i, 7))
                    <=> /\ url_fragment(comments[k].url) # ""
                        /\ url_fragment(comments[k].url)
                               = document_key(futures[i].file_path)

C6_StagesTwiceSameAsOnce ==
    \A i \in Futures :
        futures[i].pc = "returned" =>
            LET once == fs[futures[i].file_path]
                again == run_stages(once, futures[i].file_path, 1, <<>>)
            IN  again.exc = "None" /\ decode(again.trace[7]) = once

\* C7: the file of a document whose task raised holds the document's first
\* content or the whole transformed document.
C7_FailedDocumentNotTruncated ==
    \A i \in Futures :
        futures[i].pc = "raised" =>
            fs[futures[i].file_path]
                \in {source[futures[i].file_path], decode(last_soup(i))}

\* C8: the image stage raises on no document, and it leaves every article
\* that lacks the read-more link or lacks an image as it was.
C8_ClickableOnlyWhereBoth ==
    \A i \in Futures :
        /\ futures[i].raised_in # "make_images_clickable"
        /\ Len(futures[i].trace) >= 6 =>
               LET before == before_stage(i, 6)
                   arts == select(before, "article")
               IN  \A a \in 1..Len(arts) :
                       (\/ select_one_in(before, arts[a], ".readmore a") = <<>>
                        \/ select_one_in(before, arts[a], "img") = <<>>)
                           => node_at(after_stage(i, 6), arts[a]) = node_at(before, arts[a])

\* C9: the imported-comments stage raises on no document (a document with
\* no head is left without the style sheet, and is written), and the style
\* sheet it adds is the last child of head.
C9_StyleLastInHeadOrNoOp ==
    \A i \in Futures :
        /\ futures[i].raised_in # "add_hypercomments"
        /\ (staged(i) /\ hc_added(i) >= 1) =>
               LET head == node_at(after_stage(i, 7), select_one(after_stage(i, 7), "head"))
               IN  head.kids[Len(head.kids)].kids[1].name = "style"

\* C10: after the imported-comments stage every comments list holds, for
\* each comment added, one wrapper named li whose one child is the comment.
C10_OneWrapperPerMatch ==
    \A i \in Futures :
        (staged(i) /\ hc_added(i) >= 1) =>
            LET after == after_stage(i, 7)
                lists == select(after, ".kmt-list")
            IN  \A l \in 1..Len(lists) :
                    LET kids == node_at(after, lists[l]).kids
                    IN  /\ Len(kids) * Len(lists) = hc_added(i)
                        /\ \A w \in 1..Len(kids) :
                               /\ kids[w].name = "li"
                               /\ Len(kids[w].kids) = 1
                               /\ Len(select(kids[w], ".hc-comment")) = 1

=============================================================================
